---------------------------- MODULE Spec2Model ----------------------------
(***************************************************************************)
(* Model of pkg/repo/repo.go: the generic Repository[M, I] facade over the *)
(* MongoDB driver.                                                         *)
(*                                                                         *)
(*   Spec / FairSpec : one FindStream stream - the draining goroutine, the *)
(*                     three channels and the caller that consumes them.   *)
(*   CrudSpec        : the single-shot write calls (InsertOne, InsertMany, *)
(*                     UpdateOne, UpdateMany, UpdateByID).                 *)
(***************************************************************************)
EXTENDS Integers, Sequences, FiniteSets, TLC

\* ------------------------------------------------------------------ bounds

\* Longest cursor content that is explored.
MaxDocs == 3

\* Longest cursor content of each of several concurrently open streams.
MaxOpenDocs == 1

\* Identifier values: 0 (the zero value of its type) .. MaxIdVal.
MaxIdVal == 1

\* Most identifiers an InsertMany answer carries.
MaxIds == 2

\* Largest matched / modified / upserted count of an update answer.
MaxCount == 1

\* ------------------------------------------------------------- the stream

VARIABLES
    docs,           \* the cursor's content: a sequence of documents
    pos,            \* number of documents cursor.Next has advanced over
    cursorErr,      \* cursor.Err() # nil
    pc,             \* position of the draining goroutine
    values,         \* items in flight on the values channel
    errors,         \* items in flight on the errors channel
    valuesClosed,   \* number of close(values) executed
    errorsClosed,   \* number of close(errors) executed
    cancelClosed,   \* the caller has closed the cancel channel
    valLoop,        \* the caller's receive loop on values
    errLoop,        \* the caller's receive loop on errors
    recvV,          \* values the caller has received, in order
    recvE,          \* errors the caller has received, in order
    sentOnClosed,   \* history: a send was executed on a closed channel
    nextAfterStop,  \* history: cursor.Next was called after a failed Next
    advAfterCancel, \* history: successful advances after close(cancel)
    valAfterCancel, \* history: values received after close(cancel)
    idType,         \* the repository's identifier type parameter I
    call,           \* the last write call and what the driver answered
    ret,            \* what that call returned to its caller
    streams,        \* the streams of several FindStream calls, by call
    chans           \* every channel made so far, by identity

streamVars == <<docs, pos, cursorErr, pc, values, errors, valuesClosed,
                errorsClosed, cancelClosed, valLoop, errLoop, recvV, recvE,
                sentOnClosed, nextAfterStop, advAfterCancel, valAfterCancel>>

crudVars == <<idType, call, ret>>

multiVars == <<streams, chans>>

vars == <<streamVars, crudVars, multiVars>>

\* make(chan M): unbuffered.
ValuesCap == 0

\* make(chan error): unbuffered.
ErrorsCap == 0

\* The marker every stream error is wrapped under.
ErrFindStream == "find stream error"

\* All cursor contents: document i carries identifier i and is either
\* decodable into M (ok) or malformed.
Cursors ==
    UNION { { [i \in 1..n |-> [id |-> i, ok |-> f[i]]] : f \in [1..n -> BOOLEAN] }
            : n \in 0..MaxDocs }

\* cursor.Decode(&value): the decoded value carries the document's
\* identifier; a malformed document yields an error and the zero value.
Decode(doc) ==
    IF doc.ok THEN [err |-> FALSE, value |-> doc.id]
              ELSE [err |-> TRUE,  value |-> 0]

\* fmt.Errorf("%w: failed to decode result: %w", ErrFindStream, err)
DecodeError(doc) == [marker |-> ErrFindStream, kind |-> "decode", doc |-> doc.id]

\* fmt.Errorf("%w: cursor ended with errors: %w", ErrFindStream, err)
CursorError == [marker |-> ErrFindStream, kind |-> "cursor", doc |-> 0]

StreamInit ==
    /\ docs \in Cursors
    /\ pos = 0
    /\ cursorErr = FALSE
    /\ pc = "select"
    /\ values = <<>>
    /\ errors = <<>>
    /\ valuesClosed = 0
    /\ errorsClosed = 0
    /\ cancelClosed = FALSE
    /\ valLoop \in {"ranging", "left"}
    /\ errLoop \in {"ranging", "left"}
    /\ recvV = <<>>
    /\ recvE = <<>>
    /\ sentOnClosed = FALSE
    /\ nextAfterStop = FALSE
    /\ advAfterCancel = 0
    /\ valAfterCancel = 0

\* ----------------------------------------------- the draining goroutine

\* Mutant: the loop never looks at the cancel channel.
PollIgnoresCancel(cancelled) == "next"

\* select { case <-cancel: break mainLoop; default: ... }
Poll(cancelled) == IF cancelled THEN "afterLoop" ELSE "next"

\* Mutant: a failed cursor.Next continues the loop instead of leaving it.
AfterNextContinue(ok) == IF ok THEN "decode" ELSE "select"

\* if !cursor.Next(ctx) { break mainLoop }
AfterNext(ok) == IF ok THEN "decode" ELSE "afterLoop"

\* err := cursor.Decode(&value); if err != nil { errors <- ...; continue }
\* values <- value
AfterDecode(d) == IF d.err THEN "sendE" ELSE "sendV"

\* Mutant: a decode failure leaves the loop instead of continuing it.
AfterSendBreakOnError(p) ==
    CASE p = "parkE" -> "afterLoop"
      [] p = "parkV" -> "select"

\* Mutant: the loop is left after the first value.
AfterSendBreakOnValue(p) ==
    CASE p = "parkE" -> "select"
      [] p = "parkV" -> "afterLoop"

\* Where the goroutine resumes once a send inside the loop has completed:
\* `continue` after the error send, the end of the loop body after the
\* value send.
AfterSend(p) ==
    CASE p = "parkE" -> "select"
      [] p = "parkV" -> "select"

\* Mutant: the two defer statements are written in the other order, so
\* close(values) runs before close(errors).
EpilogueValuesFirst(p, err) ==
    CASE p = "afterLoop" -> IF err THEN "sendFinal" ELSE "closeV"
      [] p = "parkF"     -> "closeV"
      [] p = "closeV"    -> "closeE"
      [] p = "closeE"    -> "done"

\* Mutant: close(errors) runs before the cursor.Err() check instead of being
\* deferred.
EpilogueCloseFirst(p, err) ==
    CASE p = "afterLoop" -> "closeE"
      [] p = "closeE"    -> IF err THEN "sendFinal" ELSE "closeV"
      [] p = "parkF"     -> "closeV"
      [] p = "closeV"    -> "done"

\* Mutant: the values channel is never closed.
EpilogueNoCloseValues(p, err) ==
    CASE p = "afterLoop" -> IF err THEN "sendFinal" ELSE "closeE"
      [] p = "parkF"     -> "closeE"
      [] p = "closeE"    -> "done"
      [] p = "closeV"    -> "done"

\* The code after mainLoop: the cursor.Err() check with its final send, then
\* the deferred closes, which run in reverse order of their defer
\* statements: close(errors) first, close(values) last.
Epilogue(p, err) ==
    CASE p = "afterLoop" -> IF err THEN "sendFinal" ELSE "closeE"
      [] p = "parkF"     -> "closeE"
      [] p = "closeE"    -> "closeV"
      [] p = "closeV"    -> "done"

\* The position a sender parked at p continues from.
Resume(p) == IF p = "parkF" THEN Epilogue(p, cursorErr) ELSE AfterSend(p)

\* Mutant: the channels are made with one slot of buffer.
BlocksBuffered(n, cap) == n > cap + 1

\* A send on a channel of capacity cap leaves n items in flight: the sender
\* parks (blocks) while its item does not fit in the buffer.
Blocks(n, cap) == n > cap

TaskSelect ==
    /\ pc = "select"
    /\ pc' = Poll(cancelClosed)
    /\ UNCHANGED <<docs, pos, cursorErr, values, errors, valuesClosed,
                   errorsClosed, cancelClosed, valLoop, errLoop, recvV, recvE,
                   sentOnClosed, nextAfterStop, advAfterCancel, valAfterCancel>>
    /\ UNCHANGED <<crudVars, multiVars>>

\* cursor.Next(ctx): the next document, or false because the cursor is
\* exhausted, or false because of a cursor error (a driver failure or the
\* expiry of ctx), which cursor.Err() reports from then on.
TaskNext ==
    /\ pc = "next"
    /\ nextAfterStop' = (nextAfterStop \/ cursorErr)
    /\ \/ /\ ~cursorErr
          /\ pos < Len(docs)
          /\ pos' = pos + 1
          /\ pc' = AfterNext(TRUE)
          /\ advAfterCancel' = advAfterCancel + (IF cancelClosed THEN 1 ELSE 0)
          /\ UNCHANGED cursorErr
       \/ /\ ~cursorErr
          /\ pos = Len(docs)
          /\ pc' = AfterNext(FALSE)
          /\ UNCHANGED <<pos, cursorErr, advAfterCancel>>
       \/ /\ cursorErr' = TRUE
          /\ pc' = AfterNext(FALSE)
          /\ UNCHANGED <<pos, advAfterCancel>>
    /\ UNCHANGED <<docs, values, errors, valuesClosed, errorsClosed,
                   cancelClosed, valLoop, errLoop, recvV, recvE, sentOnClosed,
                   valAfterCancel>>
    /\ UNCHANGED <<crudVars, multiVars>>

TaskDecode ==
    /\ pc = "decode"
    /\ pc' = AfterDecode(Decode(docs[pos]))
    /\ UNCHANGED <<docs, pos, cursorErr, values, errors, valuesClosed,
                   errorsClosed, cancelClosed, valLoop, errLoop, recvV, recvE,
                   sentOnClosed, nextAfterStop, advAfterCancel, valAfterCancel>>
    /\ UNCHANGED <<crudVars, multiVars>>

\* Mutant: the value is sent from a goroutine of its own
\* (go func() { values <- value }()), so the loop goes on at once and the
\* pending sends complete in no particular order.
TaskSendValueAsync ==
    /\ pc = "sendV"
    /\ values' = <<Decode(docs[pos]).value>> \o values
    /\ sentOnClosed' = (sentOnClosed \/ valuesClosed > 0)
    /\ pc' = "select"
    /\ UNCHANGED <<docs, pos, cursorErr, errors, valuesClosed, errorsClosed,
                   cancelClosed, valLoop, errLoop, recvV, recvE,
                   nextAfterStop, advAfterCancel, valAfterCancel>>
    /\ UNCHANGED <<crudVars, multiVars>>

\* values <- value
TaskSendValue ==
    /\ pc = "sendV"
    /\ values' = Append(values, Decode(docs[pos]).value)
    /\ sentOnClosed' = (sentOnClosed \/ valuesClosed > 0)
    /\ pc' = IF Blocks(Len(values'), ValuesCap) THEN "parkV" ELSE Resume("parkV")
    /\ UNCHANGED <<docs, pos, cursorErr, errors, valuesClosed, errorsClosed,
                   cancelClosed, valLoop, errLoop, recvV, recvE,
                   nextAfterStop, advAfterCancel, valAfterCancel>>
    /\ UNCHANGED <<crudVars, multiVars>>

\* errors <- fmt.Errorf("%w: failed to decode result: %w", ...)
TaskSendError ==
    /\ pc = "sendE"
    /\ errors' = Append(errors, DecodeError(docs[pos]))
    /\ sentOnClosed' = (sentOnClosed \/ errorsClosed > 0)
    /\ pc' = IF Blocks(Len(errors'), ErrorsCap) THEN "parkE" ELSE Resume("parkE")
    /\ UNCHANGED <<docs, pos, cursorErr, values, valuesClosed, errorsClosed,
                   cancelClosed, valLoop, errLoop, recvV, recvE,
                   nextAfterStop, advAfterCancel, valAfterCancel>>
    /\ UNCHANGED <<crudVars, multiVars>>

\* if err := cursor.Err(); err != nil { ... }
TaskCursorErr ==
    /\ pc = "afterLoop"
    /\ pc' = Epilogue("afterLoop", cursorErr)
    /\ UNCHANGED <<docs, pos, cursorErr, values, errors, valuesClosed,
                   errorsClosed, cancelClosed, valLoop, errLoop, recvV, recvE,
                   sentOnClosed, nextAfterStop, advAfterCancel, valAfterCancel>>
    /\ UNCHANGED <<crudVars, multiVars>>

\* errors <- fmt.Errorf("%w: cursor ended with errors: %w", ...)
TaskSendFinal ==
    /\ pc = "sendFinal"
    /\ errors' = Append(errors, CursorError)
    /\ sentOnClosed' = (sentOnClosed \/ errorsClosed > 0)
    /\ pc' = IF Blocks(Len(errors'), ErrorsCap) THEN "parkF" ELSE Resume("parkF")
    /\ UNCHANGED <<docs, pos, cursorErr, values, valuesClosed, errorsClosed,
                   cancelClosed, valLoop, errLoop, recvV, recvE,
                   nextAfterStop, advAfterCancel, valAfterCancel>>
    /\ UNCHANGED <<crudVars, multiVars>>

\* defer close(errors)
TaskCloseErrors ==
    /\ pc = "closeE"
    /\ errorsClosed' = errorsClosed + 1
    /\ pc' = Epilogue("closeE", cursorErr)
    /\ UNCHANGED <<docs, pos, cursorErr, values, errors, valuesClosed,
                   cancelClosed, valLoop, errLoop, recvV, recvE, sentOnClosed,
                   nextAfterStop, advAfterCancel, valAfterCancel>>
    /\ UNCHANGED <<crudVars, multiVars>>

\* defer close(values)
TaskCloseValues ==
    /\ pc = "closeV"
    /\ valuesClosed' = valuesClosed + 1
    /\ pc' = Epilogue("closeV", cursorErr)
    /\ UNCHANGED <<docs, pos, cursorErr, values, errors, errorsClosed,
                   cancelClosed, valLoop, errLoop, recvV, recvE, sentOnClosed,
                   nextAfterStop, advAfterCancel, valAfterCancel>>
    /\ UNCHANGED <<crudVars, multiVars>>

Task ==
    \/ TaskSelect
    \/ TaskNext
    \/ TaskDecode
    \/ TaskSendValue
    \/ TaskSendError
    \/ TaskCursorErr
    \/ TaskSendFinal
    \/ TaskCloseErrors
    \/ TaskCloseValues

\* ------------------------------------------------------------ the caller

\* One iteration of `for model := range stream`: the receive takes the
\* oldest item in flight and lets a sender parked on the channel continue.
RecvValue ==
    /\ valLoop = "ranging"
    /\ values # <<>>
    /\ recvV' = Append(recvV, Head(values))
    /\ values' = Tail(values)
    /\ valAfterCancel' = valAfterCancel + (IF cancelClosed THEN 1 ELSE 0)
    /\ pc' = IF pc = "parkV" /\ ~Blocks(Len(values'), ValuesCap)
             THEN Resume(pc) ELSE pc
    /\ UNCHANGED <<docs, pos, cursorErr, errors, valuesClosed, errorsClosed,
                   cancelClosed, valLoop, errLoop, recvE, sentOnClosed,
                   nextAfterStop, advAfterCancel>>
    /\ UNCHANGED <<crudVars, multiVars>>

\* One iteration of `for err := range errChan`.
RecvError ==
    /\ errLoop = "ranging"
    /\ errors # <<>>
    /\ recvE' = Append(recvE, Head(errors))
    /\ errors' = Tail(errors)
    /\ pc' = IF pc \in {"parkE", "parkF"} /\ ~Blocks(Len(errors'), ErrorsCap)
             THEN Resume(pc) ELSE pc
    /\ UNCHANGED <<docs, pos, cursorErr, values, valuesClosed, errorsClosed,
                   cancelClosed, valLoop, errLoop, recvV, sentOnClosed,
                   nextAfterStop, advAfterCancel, valAfterCancel>>
    /\ UNCHANGED <<crudVars, multiVars>>

\* The range loop over values ends: the channel is closed and drained.
EndValues ==
    /\ valLoop = "ranging"
    /\ values = <<>>
    /\ valuesClosed > 0
    /\ valLoop' = "ended"
    /\ UNCHANGED <<docs, pos, cursorErr, pc, values, errors, valuesClosed,
                   errorsClosed, cancelClosed, errLoop, recvV, recvE,
                   sentOnClosed, nextAfterStop, advAfterCancel, valAfterCancel>>
    /\ UNCHANGED <<crudVars, multiVars>>

\* The range loop over errors ends: the channel is closed and drained.
EndErrors ==
    /\ errLoop = "ranging"
    /\ errors = <<>>
    /\ errorsClosed > 0
    /\ errLoop' = "ended"
    /\ UNCHANGED <<docs, pos, cursorErr, pc, values, errors, valuesClosed,
                   errorsClosed, cancelClosed, valLoop, recvV, recvE,
                   sentOnClosed, nextAfterStop, advAfterCancel, valAfterCancel>>
    /\ UNCHANGED <<crudVars, multiVars>>

\* The caller leaves its loop over values before the channel is closed
\* (break or return inside the loop body).
LeaveValues ==
    /\ valLoop = "ranging"
    /\ valLoop' = "left"
    /\ UNCHANGED <<docs, pos, cursorErr, pc, values, errors, valuesClosed,
                   errorsClosed, cancelClosed, errLoop, recvV, recvE,
                   sentOnClosed, nextAfterStop, advAfterCancel, valAfterCancel>>
    /\ UNCHANGED <<crudVars, multiVars>>

\* The caller leaves its loop over errors before the channel is closed, as
\* the test's goroutine does on the first error it receives.
LeaveErrors ==
    /\ errLoop = "ranging"
    /\ errLoop' = "left"
    /\ UNCHANGED <<docs, pos, cursorErr, pc, values, errors, valuesClosed,
                   errorsClosed, cancelClosed, valLoop, recvV, recvE,
                   sentOnClosed, nextAfterStop, advAfterCancel, valAfterCancel>>
    /\ UNCHANGED <<crudVars, multiVars>>

\* close(cancelChan): the caller closes the cancel channel, once.
CloseCancel ==
    /\ ~cancelClosed
    /\ cancelClosed' = TRUE
    /\ UNCHANGED <<docs, pos, cursorErr, pc, values, errors, valuesClosed,
                   errorsClosed, valLoop, errLoop, recvV, recvE, sentOnClosed,
                   nextAfterStop, advAfterCancel, valAfterCancel>>
    /\ UNCHANGED <<crudVars, multiVars>>

Caller ==
    \/ RecvValue
    \/ RecvError
    \/ EndValues
    \/ EndErrors
    \/ LeaveValues
    \/ LeaveErrors
    \/ CloseCancel

\* The writes play no part in a stream.
NoCall == [op |-> "none"]

\* The FindStream calls of the several-streams model.
Handles == {"s1", "s2"}

\* A FindStream call that has not been made.
NotCalled ==
    [status |-> "none", docs |-> <<>>, pos |-> 0, cursorErr |-> FALSE,
     pc |-> "none", values |-> 0, errors |-> 0, cancel |-> 0, tasks |-> 0,
     valLoop |-> "none", errLoop |-> "none", recvV |-> <<>>, recvE |-> <<>>]

\* No call of the several-streams model has been made.
MultiIdle ==
    /\ streams = [h \in Handles |-> NotCalled]
    /\ chans = <<>>

Init ==
    /\ StreamInit
    /\ idType = "ObjectID"
    /\ call = NoCall
    /\ ret = NoCall
    /\ MultiIdle

Next == Task \/ Caller

Spec == Init /\ [][Next]_vars

\* The Go scheduler runs every runnable goroutine: the draining goroutine
\* takes its next step unless it is parked on a send, and a caller that is
\* in a range loop takes the item (or sees the close) that is there.
FairSpec ==
    /\ Spec
    /\ WF_vars(Task)
    /\ WF_vars(RecvValue \/ EndValues)
    /\ WF_vars(RecvError \/ EndErrors)

\* ------------------------------------------------------- several streams
\* Each FindStream call h of Handles runs the code of the single stream above
\* on its own record streams[h]; the channels live in chans and a stream
\* holds the identities of its three.

\* The cursors a call h can get: as Cursors, each document's identifier
\* tagged with the call whose query produced it.
OpenCursors(h) ==
    UNION { { [i \in 1..n |-> [id |-> <<h, i>>, ok |-> f[i]]] : f \in [1..n -> BOOLEAN] }
            : n \in 0..MaxOpenDocs }

\* A channel as made: nothing in flight, not closed.
EmptyChan == [buf |-> <<>>, closed |-> 0]

\* Mutant: the three channels are made once and shared by every call.
NewChannelsShared(cs) == <<1, 2, 3>>

\* make(chan M), make(chan error), make(chan struct{}): three channels that
\* did not exist before the call.
NewChannels(cs) == <<Len(cs) + 1, Len(cs) + 2, Len(cs) + 3>>

\* chans once the channels ids exist.
WithChannels(cs, ids) ==
    [i \in 1..(IF ids[3] > Len(cs) THEN ids[3] ELSE Len(cs)) |->
        IF i <= Len(cs) THEN cs[i] ELSE EmptyChan]

\* The position a sender of stream s parked at p continues from.
ResumeOf(s, p) == IF p = "parkF" THEN Epilogue(p, s.cursorErr) ELSE AfterSend(p)

\* FindStream: the query fails and nothing is started, or the cursor is
\* obtained, the three channels are made and one goroutine is started.
FindStream(h) ==
    /\ streams[h].status = "none"
    /\ \/ /\ streams' = [streams EXCEPT ![h].status = "failed"]
          /\ UNCHANGED chans
       \/ \E c \in OpenCursors(h) :
            LET ids == NewChannels(chans) IN
            /\ chans' = WithChannels(chans, ids)
            /\ streams' = [streams EXCEPT ![h] =
                   [status |-> "open", docs |-> c, pos |-> 0, cursorErr |-> FALSE,
                    pc |-> "select", values |-> ids[1], errors |-> ids[2],
                    cancel |-> ids[3], tasks |-> streams[h].tasks + 1,
                    valLoop |-> "ranging", errLoop |-> "ranging",
                    recvV |-> <<>>, recvE |-> <<>>]]
    /\ UNCHANGED <<streamVars, crudVars>>

\* One step of the goroutine of stream h that touches no channel: the poll
\* of cancel, cursor.Next, cursor.Decode, the cursor.Err() check.
StreamStep(h) ==
    LET s == streams[h] IN
    /\ s.status = "open"
    /\ \/ /\ s.pc = "select"
          /\ streams' = [streams EXCEPT ![h].pc = Poll(chans[s.cancel].closed > 0)]
       \/ /\ s.pc = "next"
          /\ ~s.cursorErr
          /\ s.pos < Len(s.docs)
          /\ streams' = [streams EXCEPT ![h].pos = s.pos + 1,
                                        ![h].pc = AfterNext(TRUE)]
       \/ /\ s.pc = "next"
          /\ ~s.cursorErr
          /\ s.pos = Len(s.docs)
          /\ streams' = [streams EXCEPT ![h].pc = AfterNext(FALSE)]
       \/ /\ s.pc = "next"
          /\ streams' = [streams EXCEPT ![h].cursorErr = TRUE,
                                        ![h].pc = AfterNext(FALSE)]
       \/ /\ s.pc = "decode"
          /\ streams' = [streams EXCEPT ![h].pc = AfterDecode(Decode(s.docs[s.pos]))]
       \/ /\ s.pc = "afterLoop"
          /\ streams' = [streams EXCEPT ![h].pc = Epilogue("afterLoop", s.cursorErr)]
    /\ UNCHANGED <<chans, streamVars, crudVars>>

\* values <- value of stream h.
StreamSendValue(h) ==
    LET s == streams[h]
        buf == Append(chans[s.values].buf, Decode(s.docs[s.pos]).value) IN
    /\ s.status = "open"
    /\ s.pc = "sendV"
    /\ chans' = [chans EXCEPT ![s.values].buf = buf]
    /\ streams' = [streams EXCEPT ![h].pc =
           IF Blocks(Len(buf), ValuesCap) THEN "parkV" ELSE ResumeOf(s, "parkV")]
    /\ UNCHANGED <<streamVars, crudVars>>

\* errors <- ... of stream h: the decode error inside the loop, the cursor
\* error after it.
StreamSendError(h) ==
    LET s == streams[h]
        e == IF s.pc = "sendE" THEN DecodeError(s.docs[s.pos]) ELSE CursorError
        parked == IF s.pc = "sendE" THEN "parkE" ELSE "parkF"
        buf == Append(chans[s.errors].buf, e) IN
    /\ s.status = "open"
    /\ s.pc \in {"sendE", "sendFinal"}
    /\ chans' = [chans EXCEPT ![s.errors].buf = buf]
    /\ streams' = [streams EXCEPT ![h].pc =
           IF Blocks(Len(buf), ErrorsCap) THEN parked ELSE ResumeOf(s, parked)]
    /\ UNCHANGED <<streamVars, crudVars>>

\* The deferred closes of stream h: close(errors), then close(values).
StreamClose(h) ==
    LET s == streams[h]
        ch == IF s.pc = "closeE" THEN s.errors ELSE s.values IN
    /\ s.status = "open"
    /\ s.pc \in {"closeE", "closeV"}
    /\ chans' = [chans EXCEPT ![ch].closed = @ + 1]
    /\ streams' = [streams EXCEPT ![h].pc = Epilogue(s.pc, s.cursorErr)]
    /\ UNCHANGED <<streamVars, crudVars>>

\* The caller of stream h receives a value.
StreamRecvValue(h) ==
    LET s == streams[h]
        rest == Tail(chans[s.values].buf) IN
    /\ s.status = "open"
    /\ s.valLoop = "ranging"
    /\ chans[s.values].buf # <<>>
    /\ chans' = [chans EXCEPT ![s.values].buf = rest]
    /\ streams' = [streams EXCEPT
           ![h].recvV = Append(s.recvV, Head(chans[s.values].buf)),
           ![h].pc = IF s.pc = "parkV" /\ ~Blocks(Len(rest), ValuesCap)
                     THEN ResumeOf(s, s.pc) ELSE s.pc]
    /\ UNCHANGED <<streamVars, crudVars>>

\* The caller of stream h receives an error.
StreamRecvError(h) ==
    LET s == streams[h]
        rest == Tail(chans[s.errors].buf) IN
    /\ s.status = "open"
    /\ s.errLoop = "ranging"
    /\ chans[s.errors].buf # <<>>
    /\ chans' = [chans EXCEPT ![s.errors].buf = rest]
    /\ streams' = [streams EXCEPT
           ![h].recvE = Append(s.recvE, Head(chans[s.errors].buf)),
           ![h].pc = IF s.pc \in {"parkE", "parkF"} /\ ~Blocks(Len(rest), ErrorsCap)
                     THEN ResumeOf(s, s.pc) ELSE s.pc]
    /\ UNCHANGED <<streamVars, crudVars>>

\* A range loop of the caller of stream h ends on its closed, drained
\* channel.
StreamEndLoop(h) ==
    LET s == streams[h] IN
    /\ s.status = "open"
    /\ \/ /\ s.valLoop = "ranging"
          /\ chans[s.values].buf = <<>>
          /\ chans[s.values].closed > 0
          /\ streams' = [streams EXCEPT ![h].valLoop = "ended"]
       \/ /\ s.errLoop = "ranging"
          /\ chans[s.errors].buf = <<>>
          /\ chans[s.errors].closed > 0
          /\ streams' = [streams EXCEPT ![h].errLoop = "ended"]
    /\ UNCHANGED <<chans, streamVars, crudVars>>

\* The caller of stream h stops receiving: it leaves both of its loops.
StreamLeave(h) ==
    LET s == streams[h] IN
    /\ s.status = "open"
    /\ s.valLoop = "ranging"
    /\ s.errLoop = "ranging"
    /\ streams' = [streams EXCEPT ![h].valLoop = "left", ![h].errLoop = "left"]
    /\ UNCHANGED <<chans, streamVars, crudVars>>

\* The caller of stream h closes its cancel channel, once.
StreamCancel(h) ==
    LET s == streams[h] IN
    /\ s.status = "open"
    /\ chans[s.cancel].closed = 0
    /\ chans' = [chans EXCEPT ![s.cancel].closed = 1]
    /\ UNCHANGED <<streams, streamVars, crudVars>>

MultiInit ==
    /\ MultiIdle
    /\ idType = "ObjectID"
    /\ call = NoCall
    /\ ret = NoCall
    /\ docs = <<>>
    /\ pos = 0
    /\ cursorErr = FALSE
    /\ pc = "select"
    /\ values = <<>>
    /\ errors = <<>>
    /\ valuesClosed = 0
    /\ errorsClosed = 0
    /\ cancelClosed = FALSE
    /\ valLoop = "left"
    /\ errLoop = "left"
    /\ recvV = <<>>
    /\ recvE = <<>>
    /\ sentOnClosed = FALSE
    /\ nextAfterStop = FALSE
    /\ advAfterCancel = 0
    /\ valAfterCancel = 0

MultiNext ==
    \E h \in Handles :
        \/ FindStream(h)
        \/ StreamStep(h)
        \/ StreamSendValue(h)
        \/ StreamSendError(h)
        \/ StreamClose(h)
        \/ StreamRecvValue(h)
        \/ StreamRecvError(h)
        \/ StreamEndLoop(h)
        \/ StreamLeave(h)
        \/ StreamCancel(h)

MultiSpec == MultiInit /\ [][MultiNext]_vars

\* -------------------------------------------------------------- the writes

ErrFindOne    == "find one error"
ErrInsertOne  == "insert one error"
ErrInsertMany == "insert many error"
ErrUpdateOne  == "update one error"
ErrUpdateByID == "update by ID error"
ErrUpdateMany == "update many error"

\* The dynamic types an identifier of the store can have; the repository's
\* type parameter I is one of them.
IdTypes == {"ObjectID", "string", "int64"}

\* A nil interface value / a nil pointer / a nil slice.
Nil == [type |-> "nil", val |-> 0]

\* The identifiers the driver can hand back as `any`.
StoreIDs == [type : IdTypes, val : 0..MaxIdVal]

\* var x I: the zero value of the identifier type.
Zero(I) == [type |-> I, val |-> 0]

\* &x: a non-nil pointer to x.
Ptr(x) == [type |-> "ptr", val |-> x]

\* A nil error, and an error wrapped under an operation's marker.
NoErr == [marker |-> "nil", cause |-> "nil"]
Wrap(marker, cause) == [marker |-> marker, cause |-> cause]

\* Mutant: the conversion accepts an identifier of any type.
TypeAssertUnchecked(id, I) ==
    IF id # Nil THEN [ok |-> TRUE,  oid |-> [type |-> I, val |-> id.val]]
                ELSE [ok |-> FALSE, oid |-> Zero(I)]

\* oid, ok := id.(I): succeeds only when the dynamic type of id is I.
TypeAssert(id, I) ==
    IF id # Nil /\ id.type = I THEN [ok |-> TRUE,  oid |-> id]
                               ELSE [ok |-> FALSE, oid |-> Zero(I)]

\* What the driver answers to a write: an error, or its result struct.
InsertOneAnswers ==
    [err : {TRUE}] \cup [err : {FALSE}, InsertedID : StoreIDs \cup {Nil}]

InsertManyAnswers ==
    [err : {TRUE}] \cup
    [err : {FALSE},
     InsertedIDs : UNION { [1..n -> StoreIDs \cup {Nil}] : n \in 0..MaxIds }]

UpdateAnswers ==
    [err : {TRUE}] \cup
    [err : {FALSE}, MatchedCount : 0..MaxCount, ModifiedCount : 0..MaxCount,
     UpsertedCount : 0..MaxCount, UpsertedID : StoreIDs \cup {Nil}]

InsertOne(I, ans) ==
    IF ans.err
    THEN [id |-> Zero(I), err |-> Wrap(ErrInsertOne, "driver")]
    ELSE IF TypeAssert(ans.InsertedID, I).ok
         THEN [id |-> TypeAssert(ans.InsertedID, I).oid, err |-> NoErr]
         ELSE [id |-> Zero(I), err |-> Wrap(ErrInsertOne, "convert")]

\* Mutant: a failed conversion returns the identifiers converted before it.
RECURSIVE ConvertIDsPartial(_, _, _, _)
ConvertIDsPartial(ids, i, acc, I) ==
    IF i > Len(ids)
    THEN [ids |-> acc, err |-> NoErr]
    ELSE IF TypeAssert(ids[i], I).ok
         THEN ConvertIDsPartial(ids, i + 1,
                                [acc EXCEPT ![i] = TypeAssert(ids[i], I).oid], I)
         ELSE [ids |-> SubSeq(acc, 1, i - 1), err |-> Wrap(ErrInsertMany, "convert")]

\* The loop over result.InsertedIDs from index i on, with the identifiers
\* converted so far in acc.
RECURSIVE ConvertIDs(_, _, _, _)
ConvertIDs(ids, i, acc, I) ==
    IF i > Len(ids)
    THEN [ids |-> acc, err |-> NoErr]
    ELSE IF TypeAssert(ids[i], I).ok
         THEN ConvertIDs(ids, i + 1, [acc EXCEPT ![i] = TypeAssert(ids[i], I).oid], I)
         ELSE [ids |-> Nil, err |-> Wrap(ErrInsertMany, "convert")]

InsertMany(I, ans) ==
    IF ans.err
    THEN [ids |-> Nil, err |-> Wrap(ErrInsertMany, "driver")]
    ELSE ConvertIDs(ans.InsertedIDs, 1,
                    [k \in 1..Len(ans.InsertedIDs) |-> Zero(I)], I)

UpdateByID(I, ans) ==
    IF ans.err
    THEN [res |-> Nil, err |-> Wrap(ErrUpdateByID, "driver")]
    ELSE IF ans.UpsertedID # Nil /\ ~TypeAssert(ans.UpsertedID, I).ok
         THEN [res |-> Nil, err |-> Wrap(ErrUpdateByID, "convert")]
         ELSE [res |-> [MatchedCount  |-> ans.MatchedCount,
                        ModifiedCount |-> ans.ModifiedCount,
                        UpsertedCount |-> ans.UpsertedCount,
                        UpsertedID    |-> Ptr(IF ans.UpsertedID # Nil
                                              THEN TypeAssert(ans.UpsertedID, I).oid
                                              ELSE Zero(I))],
               err |-> NoErr]

UpdateOne(I, ans) ==
    IF ans.err
    THEN [res |-> Nil, err |-> Wrap(ErrUpdateOne, "driver")]
    ELSE IF ans.UpsertedID # Nil /\ ~TypeAssert(ans.UpsertedID, I).ok
         THEN [res |-> Nil, err |-> Wrap(ErrUpdateOne, "convert")]
         ELSE [res |-> [MatchedCount  |-> ans.MatchedCount,
                        ModifiedCount |-> ans.ModifiedCount,
                        UpsertedCount |-> ans.UpsertedCount,
                        UpsertedID    |-> Ptr(IF ans.UpsertedID # Nil
                                              THEN TypeAssert(ans.UpsertedID, I).oid
                                              ELSE Zero(I))],
               err |-> NoErr]

UpdateMany(I, ans) ==
    IF ans.err
    THEN [res |-> Nil, err |-> Wrap(ErrUpdateMany, "driver")]
    ELSE IF ans.UpsertedID # Nil /\ ~TypeAssert(ans.UpsertedID, I).ok
         THEN [res |-> Nil, err |-> Wrap(ErrUpdateMany, "convert")]
         ELSE [res |-> [MatchedCount  |-> ans.MatchedCount,
                        ModifiedCount |-> ans.ModifiedCount,
                        UpsertedCount |-> ans.UpsertedCount,
                        UpsertedID    |-> Ptr(IF ans.UpsertedID # Nil
                                              THEN TypeAssert(ans.UpsertedID, I).oid
                                              ELSE Zero(I))],
               err |-> NoErr]

\* mongo.ErrNoDocuments: what the driver's single result reports when the
\* filter matched no document.
ErrNoDocuments == "mongo: no documents in result"

\* var value M: the zero value of the model type.
ZeroM == 0

\* What the driver answers to FindOne: an error of the single result (no
\* document, or a driver failure), or the matched document.
FindOneAnswers ==
    [resultErr : {ErrNoDocuments, "driver"}, doc : {[id |-> 0, ok |-> FALSE]}]
    \cup [resultErr : {"nil"}, doc : [id : 0..MaxIdVal, ok : BOOLEAN]]

\* Mutant: a filter that matches nothing yields the zero value and no error.
FindOneSwallowsNotFound(ans) ==
    IF ans.resultErr = ErrNoDocuments
    THEN [value |-> ZeroM, err |-> NoErr]
    ELSE IF ans.resultErr # "nil"
         THEN [value |-> ZeroM, err |-> Wrap(ErrFindOne, ans.resultErr)]
         ELSE IF Decode(ans.doc).err
              THEN [value |-> Decode(ans.doc).value, err |-> Wrap(ErrFindOne, "decode")]
              ELSE [value |-> Decode(ans.doc).value, err |-> NoErr]

FindOne(ans) ==
    IF ans.resultErr # "nil"
    THEN [value |-> ZeroM, err |-> Wrap(ErrFindOne, ans.resultErr)]
    ELSE IF Decode(ans.doc).err
         THEN [value |-> Decode(ans.doc).value, err |-> Wrap(ErrFindOne, "decode")]
         ELSE [value |-> Decode(ans.doc).value, err |-> NoErr]

CallFindOne ==
    /\ \E ans \in FindOneAnswers :
          /\ call' = [op |-> "FindOne", ans |-> ans]
          /\ ret' = FindOne(ans)
    /\ UNCHANGED <<idType, streamVars, multiVars>>

CallInsertOne ==
    /\ \E ans \in InsertOneAnswers :
          /\ call' = [op |-> "InsertOne", ans |-> ans]
          /\ ret' = InsertOne(idType, ans)
    /\ UNCHANGED <<idType, streamVars, multiVars>>

CallInsertMany ==
    /\ \E ans \in InsertManyAnswers :
          /\ call' = [op |-> "InsertMany", ans |-> ans]
          /\ ret' = InsertMany(idType, ans)
    /\ UNCHANGED <<idType, streamVars, multiVars>>

CallUpdateByID ==
    /\ \E ans \in UpdateAnswers :
          /\ call' = [op |-> "UpdateByID", ans |-> ans]
          /\ ret' = UpdateByID(idType, ans)
    /\ UNCHANGED <<idType, streamVars, multiVars>>

CallUpdateOne ==
    /\ \E ans \in UpdateAnswers :
          /\ call' = [op |-> "UpdateOne", ans |-> ans]
          /\ ret' = UpdateOne(idType, ans)
    /\ UNCHANGED <<idType, streamVars, multiVars>>

CallUpdateMany ==
    /\ \E ans \in UpdateAnswers :
          /\ call' = [op |-> "UpdateMany", ans |-> ans]
          /\ ret' = UpdateMany(idType, ans)
    /\ UNCHANGED <<idType, streamVars, multiVars>>

\* NewRepository[M, I]: the identifier type is fixed at construction; no
\* stream is running.
CrudInit ==
    /\ MultiIdle
    /\ idType \in IdTypes
    /\ call = NoCall
    /\ ret = NoCall
    /\ docs = <<>>
    /\ pos = 0
    /\ cursorErr = FALSE
    /\ pc = "select"
    /\ values = <<>>
    /\ errors = <<>>
    /\ valuesClosed = 0
    /\ errorsClosed = 0
    /\ cancelClosed = FALSE
    /\ valLoop = "left"
    /\ errLoop = "left"
    /\ recvV = <<>>
    /\ recvE = <<>>
    /\ sentOnClosed = FALSE
    /\ nextAfterStop = FALSE
    /\ advAfterCancel = 0
    /\ valAfterCancel = 0

CrudNext ==
    \/ CallFindOne
    \/ CallInsertOne
    \/ CallInsertMany
    \/ CallUpdateByID
    \/ CallUpdateOne
    \/ CallUpdateMany

CrudSpec == CrudInit /\ [][CrudNext]_vars

\* -------------------------------------------------------- write claims

UpdateOps == {"UpdateOne", "UpdateMany", "UpdateByID"}

Marker(op) ==
    CASE op = "InsertOne"  -> ErrInsertOne
      [] op = "InsertMany" -> ErrInsertMany
      [] op = "UpdateOne"  -> ErrUpdateOne
      [] op = "UpdateMany" -> ErrUpdateMany
      [] op = "UpdateByID" -> ErrUpdateByID

WriteOps == {"InsertOne", "InsertMany"} \cup UpdateOps

\* The driver's write succeeded.
Answered == call.op \in WriteOps /\ ~call.ans.err

\* C9: an update whose write succeeded without an upsert (no upserted
\* identifier) succeeds with a nil UpsertedID and the counts copied; with an
\* upsert of an identifier of type I, UpsertedID holds that identifier.
C9_NoUpsertNilID ==
    (call.op \in UpdateOps /\ Answered) =>
        /\ call.ans.UpsertedID = Nil =>
              /\ ret.err = NoErr
              /\ ret.res.UpsertedID = Nil
              /\ ret.res.MatchedCount = call.ans.MatchedCount
              /\ ret.res.ModifiedCount = call.ans.ModifiedCount
              /\ ret.res.UpsertedCount = call.ans.UpsertedCount
        /\ (call.ans.UpsertedID # Nil /\ call.ans.UpsertedID.type = idType) =>
              /\ ret.err = NoErr
              /\ ret.res.UpsertedID = Ptr(call.ans.UpsertedID)

\* The store answered with an identifier whose type is not I.
Mismatch ==
    /\ Answered
    /\ CASE call.op = "InsertOne"  -> call.ans.InsertedID.type # idType
         [] call.op = "InsertMany" ->
                \E i \in 1..Len(call.ans.InsertedIDs) :
                    call.ans.InsertedIDs[i].type # idType
         [] call.op \in UpdateOps  ->
                call.ans.UpsertedID # Nil /\ call.ans.UpsertedID.type # idType

\* The call surfaced no identifier: the zero value (InsertOne), a nil slice
\* (InsertMany), a nil result (updates).
NoIdentifier ==
    CASE call.op = "InsertOne"  -> ret.id = Zero(idType)
      [] call.op = "InsertMany" -> ret.ids = Nil
      [] call.op \in UpdateOps  -> ret.res = Nil

\* The identifiers a successful call returned are the store's, of type I.
IdentifiersConverted ==
    CASE call.op = "InsertOne"  ->
             call.ans.InsertedID.type = idType /\ ret.id = call.ans.InsertedID
      [] call.op = "InsertMany" ->
             /\ Len(ret.ids) = Len(call.ans.InsertedIDs)
             /\ \A i \in 1..Len(ret.ids) :
                    /\ call.ans.InsertedIDs[i].type = idType
                    /\ ret.ids[i] = call.ans.InsertedIDs[i]
      [] call.op \in UpdateOps  ->
             call.ans.UpsertedID # Nil =>
                 /\ call.ans.UpsertedID.type = idType
                 /\ ret.res.UpsertedID.val = call.ans.UpsertedID

\* C10: a store identifier whose type is not I fails the call with an error
\* under the operation's marker and surfaces no identifier; a call that
\* succeeds returns only identifiers whose conversion to I succeeded.
C10_IdentifierMismatch ==
    /\ Mismatch => (ret.err = Wrap(Marker(call.op), "convert") /\ NoIdentifier)
    /\ (Answered /\ ret.err = NoErr) => IdentifiersConverted
    /\ (Answered /\ ret.err # NoErr) => (Mismatch /\ NoIdentifier)

\* An InsertMany whose second identifier has the wrong type, after a first
\* one of the right type.
C10_Witness ==
    /\ call.op = "InsertMany"
    /\ Answered
    /\ Len(call.ans.InsertedIDs) = 2
    /\ call.ans.InsertedIDs[1].type = idType
    /\ call.ans.InsertedIDs[2] \in StoreIDs
    /\ call.ans.InsertedIDs[2].type # idType
    /\ ret.ids = Nil
    /\ ret.err.marker = ErrInsertMany

\* C11: InsertMany returns the identifiers in the order the store reported
\* them (one per input document) - as many as reported, the i-th being the
\* i-th converted; if any one conversion fails the call fails under
\* ErrInsertMany and returns no identifier at all.
C11_InsertManyOrder ==
    (call.op = "InsertMany" /\ Answered) =>
        IF \A i \in 1..Len(call.ans.InsertedIDs) :
               call.ans.InsertedIDs[i].type = idType
        THEN /\ ret.err = NoErr
             /\ Len(ret.ids) = Len(call.ans.InsertedIDs)
             /\ \A i \in 1..Len(ret.ids) :
                    ret.ids[i] = TypeAssert(call.ans.InsertedIDs[i], idType).oid
        ELSE /\ ret.err = Wrap(ErrInsertMany, "convert")
             /\ ret.ids = Nil

\* Two different identifiers of type I came back in the store's order.
C11_Witness ==
    /\ call.op = "InsertMany"
    /\ Answered
    /\ Len(call.ans.InsertedIDs) = 2
    /\ call.ans.InsertedIDs[1] # call.ans.InsertedIDs[2]
    /\ ret.err = NoErr
    /\ ret.ids = call.ans.InsertedIDs

\* C13: FindOne on a filter that matches nothing returns an error under
\* ErrFindOne that keeps the driver's no-document cause, with the zero value
\* of M; a matched document that cannot be decoded also fails under
\* ErrFindOne; success is reported only for a decoded document.
C13_FindOneNotFound ==
    call.op = "FindOne" =>
        /\ call.ans.resultErr = ErrNoDocuments =>
               /\ ret.err = Wrap(ErrFindOne, ErrNoDocuments)
               /\ ret.value = ZeroM
        /\ (call.ans.resultErr = "nil" /\ ~call.ans.doc.ok) =>
               (ret.err # NoErr /\ ret.err.marker = ErrFindOne)
        /\ ret.err = NoErr =>
               /\ call.ans.resultErr = "nil"
               /\ call.ans.doc.ok
               /\ ret.value = call.ans.doc.id

\* FindOne was called with a filter that matched no document.
C13_Witness ==
    /\ call.op = "FindOne"
    /\ call.ans.resultErr = ErrNoDocuments
    /\ ret.err.marker = ErrFindOne
    /\ ret.err.cause = ErrNoDocuments

\* ------------------------------------------------------- stream claims

Range(s) == { s[i] : i \in 1..Len(s) }

\* Number of items of kind k among the errors in s.
CountKind(s, k) == Cardinality({ i \in 1..Len(s) : s[i].kind = k })

\* Number of malformed documents in the cursor.
Malformed == Cardinality({ i \in 1..Len(docs) : ~docs[i].ok })

\* Both channels are closed and the goroutine has returned.
StreamClosed == pc = "done" /\ valuesClosed = 1 /\ errorsClosed = 1

\* The loop of mainLoop is over.
LoopStopped == pc \in {"afterLoop", "sendFinal", "parkF", "closeE", "closeV", "done"}

\* C1 as stated: a caller that ranges over either one of the two channels
\* always terminates - its loop over values ends, and its loop over errors
\* ends, whatever the other loop does.
C1_EitherLoopEnds ==
    /\ <>(valLoop # "ranging")
    /\ <>(errLoop # "ranging")

\* C1 amended: the goroutine closes both channels as its last step, and a
\* caller that keeps ranging over both channels (neither loop is left
\* early) sees both loops end, for any cursor content.
C1_BothLoopsEnd ==
    /\ [](pc = "done" => valuesClosed = 1 /\ errorsClosed = 1)
    /\ <>(\/ valLoop = "left"
          \/ errLoop = "left"
          \/ (valLoop = "ended" /\ errLoop = "ended" /\ StreamClosed))

\* Both loops have ended on a cursor with a malformed document and a
\* cursor error.
C1_Witness ==
    /\ valLoop = "ended"
    /\ errLoop = "ended"
    /\ Len(recvV) >= 1
    /\ CountKind(recvE, "decode") >= 1
    /\ CountKind(recvE, "cursor") = 1

\* C2: once the cancel channel is closed before the cursor is exhausted, the
\* goroutine eventually stops and both channels are eventually closed,
\* whatever it was doing at that moment.  Stated for the streams whose cursor
\* never fails, so that a violation shows the cancellation itself being
\* missed.
C2_CancelStopsStream ==
    \/ <>cursorErr
    \/ (cancelClosed /\ pos < Len(docs)) ~> StreamClosed

\* C3: after the cancel channel is closed at most one further cursor advance
\* is performed and at most one additional value is delivered.
C3_CancelLatency ==
    /\ advAfterCancel <= 1
    /\ valAfterCancel <= 1

\* The cancel channel was closed between the poll and cursor.Next: one more
\* advance, one more value, then the stream closed with documents left.
C3_Witness ==
    /\ cancelClosed
    /\ advAfterCancel = 1
    /\ valAfterCancel = 1
    /\ StreamClosed
    /\ pos < Len(docs)

\* C4: each channel is closed at most once, neither is closed while the loop
\* can still advance or emit, and nothing is sent on a closed channel.
C4_CloseOnceAfterStop ==
    /\ valuesClosed <= 1
    /\ errorsClosed <= 1
    /\ ~sentOnClosed
    /\ errorsClosed > 0 => pc \in {"closeV", "done"}
    /\ valuesClosed > 0 => pc = "done"
    /\ (valuesClosed > 0 \/ errorsClosed > 0) => (values = <<>> /\ errors = <<>>)

\* A stream that emitted a value, a decode error and the final cursor error
\* and then closed both channels.
C4_Witness ==
    /\ StreamClosed
    /\ cursorErr
    /\ Len(recvV) >= 1
    /\ CountKind(recvE, "decode") >= 1

\* C5, the result: without cancellation and cursor error, a cursor of N
\* documents with exactly one malformed yields N-1 values, at least one
\* error, every error under ErrFindStream, and the documents after the
\* malformed one are delivered.
C5_Result ==
    (pc = "done" /\ ~cancelClosed /\ ~cursorErr /\ Malformed = 1) =>
        /\ Len(recvV) = Len(docs) - 1
        /\ Range(recvV) = { docs[i].id : i \in { j \in 1..Len(docs) : docs[j].ok } }
        /\ Len(recvE) >= 1
        /\ \A i \in 1..Len(recvE) : recvE[i].marker = ErrFindStream
        /\ valuesClosed = 1 /\ errorsClosed = 1

\* C5: a decode failure does not abort the stream - the result above, and
\* for a caller that keeps receiving on both channels both are eventually
\* closed.
C5_DecodeFailureNonFatal ==
    /\ []C5_Result
    /\ <>(valLoop = "left" \/ errLoop = "left" \/ StreamClosed)

\* A stream over a cursor whose first document is malformed and is followed
\* by well-formed ones has closed.
C5_Witness ==
    /\ StreamClosed
    /\ ~cancelClosed
    /\ ~cursorErr
    /\ Malformed = 1
    /\ Len(docs) >= 3
    /\ ~docs[1].ok
    /\ Len(recvV) = Len(docs) - 1

\* C6: without cancellation, N well-formed documents and no cursor error
\* give exactly N values, the same set as the cursor's documents, no error,
\* and both channels closed.
C6_Completeness ==
    (pc = "done" /\ ~cancelClosed /\ ~cursorErr /\ Malformed = 0) =>
        /\ Len(recvV) = Len(docs)
        /\ Range(recvV) = { docs[i].id : i \in 1..Len(docs) }
        /\ recvE = <<>>
        /\ errors = <<>>
        /\ values = <<>>
        /\ valuesClosed = 1 /\ errorsClosed = 1

\* A stream of MaxDocs well-formed documents ran to exhaustion.
C6_Witness ==
    /\ StreamClosed
    /\ ~cancelClosed
    /\ ~cursorErr
    /\ Malformed = 0
    /\ Len(docs) = MaxDocs
    /\ Len(recvV) = MaxDocs

\* C7: a cursor error stops the loop with no further advance; exactly one
\* final error under ErrFindStream is emitted, after the loop has stopped
\* and before the channels close; without a cursor error none is emitted.
C7_CursorErrorFatal ==
    /\ cursorErr => LoopStopped
    /\ ~nextAfterStop
    /\ CountKind(recvE \o errors, "cursor") <= (IF cursorErr THEN 1 ELSE 0)
    /\ CountKind(errors, "cursor") = 1 => pc = "parkF"
    /\ (cursorErr /\ errorsClosed > 0) =>
           /\ CountKind(recvE, "cursor") = 1
           /\ recvE[Len(recvE)] = CursorError
    /\ (pc = "done" /\ cursorErr) => StreamClosed

\* A cursor that failed after yielding a document: the final error was
\* received last and the stream closed.
C7_Witness ==
    /\ StreamClosed
    /\ cursorErr
    /\ pos >= 1
    /\ pos < Len(docs)
    /\ recvE # <<>>
    /\ recvE[Len(recvE)] = CursorError

\* C8: the goroutine is at most one document ahead of what the caller has
\* received, and does not advance again while an emission is pending.
C8_Backpressure ==
    /\ pos - (Len(recvV) + Len(recvE)) <= 1
    /\ pc \in {"select", "next"} => pos = Len(recvV) + Len(recvE)
    /\ Len(values) + Len(errors) <= 1

\* The goroutine is parked on the send of the second document's value while
\* the caller has received only the first.
C8_Witness ==
    /\ pc = "parkV"
    /\ pos = 2
    /\ Len(recvV) + Len(recvE) = 1
    /\ values # <<>>

\* The position in the cursor of the document a value was decoded from.
CursorIndex(v) == CHOOSE i \in 1..Len(docs) : docs[i].id = v

\* C12: values arrive in the cursor's order - of two delivered values the
\* one whose document comes first in the cursor is received first, malformed
\* documents in between or not; every delivered value is a well-formed
\* document the cursor has advanced over.
C12_CursorOrder ==
    /\ \A i \in 1..Len(recvV) :
           /\ \E k \in 1..pos : docs[k].ok /\ docs[k].id = recvV[i]
    /\ \A i, j \in 1..Len(recvV) :
           i < j => CursorIndex(recvV[i]) < CursorIndex(recvV[j])

\* The first and the third document were delivered in that order, the
\* malformed second one was reported in between.
C12_Witness ==
    /\ Len(docs) = 3
    /\ ~docs[2].ok
    /\ recvV = <<docs[1].id, docs[3].id>>
    /\ recvE = <<DecodeError(docs[2])>>

\* C15: the error channel is closed before the value channel and the final
\* cursor error is sent before either close - whenever the value channel is
\* closed the error channel is closed too, nothing is in flight on it and the
\* goroutine is past every send.
C15_ErrorsClosedFirst ==
    /\ valuesClosed <= errorsClosed
    /\ valuesClosed > 0 =>
           /\ errorsClosed = 1
           /\ errors = <<>>
           /\ pc \notin {"sendE", "parkE", "sendFinal", "parkF"}
    /\ (errorsClosed > 0 \/ valuesClosed > 0) =>
           CountKind(recvE, "cursor") = (IF cursorErr THEN 1 ELSE 0)

\* After a cursor error: the final error has been received, the error
\* channel is closed and the value channel is still open.
C15_Witness ==
    /\ pc = "closeV"
    /\ cursorErr
    /\ errorsClosed = 1
    /\ valuesClosed = 0
    /\ recvE # <<>>
    /\ recvE[Len(recvE)] = CursorError

\* ------------------------------------------------ several-streams claims

\* The channels of an open stream.
ChannelsOf(h) == {streams[h].values, streams[h].errors, streams[h].cancel}

\* Everything that belongs to stream h: its record (cursor, goroutine,
\* caller's loops and what they received) and the state of its channels.
View(h) ==
    <<streams[h],
      IF streams[h].status = "open"
      THEN <<chans[streams[h].values], chans[streams[h].errors],
             chans[streams[h].cancel]>>
      ELSE <<>> >>

\* Some step of stream h's goroutine or of its caller's loops can be taken.
CanRun(h) ==
    ENABLED (\/ StreamStep(h) \/ StreamSendValue(h) \/ StreamSendError(h)
             \/ StreamClose(h) \/ StreamRecvValue(h) \/ StreamRecvError(h)
             \/ StreamEndLoop(h))

\* Each call that succeeded started one goroutine with three channels of its
\* own; what a caller receives comes from its own cursor; a stream is closed
\* only by its own goroutine, and while its caller keeps receiving it is
\* never stopped or blocked short of its own end.
OwnStream(h) ==
    LET s == streams[h] IN
    IF s.status # "open"
    THEN s.tasks = 0
    ELSE /\ s.tasks = 1
         /\ Cardinality(ChannelsOf(h)) = 3
         /\ \A t \in Handles \ {h} :
                streams[t].status = "open" => ChannelsOf(h) \cap ChannelsOf(t) = {}
         /\ \A i \in 1..Len(s.recvV) :
                \E k \in 1..s.pos : s.docs[k].ok /\ s.docs[k].id = s.recvV[i]
         /\ \A i \in 1..Len(s.recvE) :
                \/ s.recvE[i].kind = "cursor" /\ s.cursorErr
                \/ /\ s.recvE[i].kind = "decode"
                   /\ \E k \in 1..s.pos :
                          ~s.docs[k].ok /\ s.recvE[i].doc = s.docs[k].id
         /\ \A c \in ChannelsOf(h) : chans[c].closed <= 1
         /\ (chans[s.values].closed > 0 \/ chans[s.errors].closed > 0) =>
                s.pc \in {"closeV", "done"}
         /\ (s.pc = "done" /\ chans[s.cancel].closed = 0 /\ ~s.cursorErr) =>
                (s.pos = Len(s.docs) /\ Len(s.recvV) + Len(s.recvE) = Len(s.docs))
         /\ (s.valLoop # "left" /\ s.errLoop # "left"
             /\ ~(s.pc = "done" /\ s.valLoop = "ended" /\ s.errLoop = "ended")) =>
                CanRun(h)

\* C14: every successful FindStream call has one goroutine, one cursor and
\* three channels of its own, and open streams are independent: a step of one
\* stream - its goroutine, its caller receiving, leaving or cancelling -
\* changes nothing that belongs to another stream.
C14_StreamsIndependent ==
    /\ [](\A h \in Handles : OwnStream(h))
    /\ [][\A h, t \in Handles :
             (h # t /\ View(h)' # View(h)) => View(t)' = View(t)]_vars

\* Stream s1 was cancelled and its caller stopped receiving before its
\* document was delivered, while stream s2 delivered its document and closed.
C14_Witness ==
    /\ streams["s1"].status = "open"
    /\ streams["s2"].status = "open"
    /\ chans[streams["s1"].cancel].closed = 1
    /\ streams["s1"].valLoop = "left"
    /\ streams["s1"].pc = "parkV"
    /\ chans[streams["s2"].cancel].closed = 0
    /\ streams["s2"].pc = "done"
    /\ Len(streams["s2"].recvV) = 1
    /\ streams["s2"].valLoop = "ended"
    /\ streams["s2"].errLoop = "ended"

=============================================================================
